---- MODULE Spec2Model ----
(***************************************************************************)
(* Model of pkg/kubelet/types/pod_update.go: source-name validation        *)
(* (GetValidatedSources), pod provenance (GetPodSource, IsMirrorPod,       *)
(* IsStaticPod) and the criticality / preemption policy (IsCriticalPod,    *)
(* IsNodeCriticalPod, Preemptable).  The functions are pure; the state     *)
(* machine holds the arguments of one call and what the call returned.     *)
(***************************************************************************)
EXTENDS Integers, Sequences, FiniteSets, TLC

\* ------------------------------------------------------------------ bounds
\* Longest slice of source names handed to GetValidatedSources.
MaxLen == 3
\* Priorities are drawn from 0..PrioSpread and from the values within
\* PrioSpread of the critical threshold.
PrioSpread == 1

\* --------------------------------------------------------------- constants
ConfigSourceAnnotationKey == "kubernetes.io/config.source"
ConfigMirrorAnnotationKey == "kubernetes.io/config.mirror"

FileSource == "file"
HTTPSource == "http"
ApiserverSource == "api"
AllSource == "*"

\* scheduling.SystemCriticalPriority and scheduling.SystemNodeCritical
SystemCriticalPriority == 2000000000
SystemNodeCritical == "system-node-critical"

\* ------------------------------------------------------------- Go values
\* A []string: nil or a (possibly empty) sequence.
NilSlice == [isNil |-> TRUE, elems |-> <<>>]
MkSlice(s) == [isNil |-> FALSE, elems |-> s]

\* An error: nil, or the format and argument given to fmt.Errorf.
NilError == [isNil |-> TRUE, format |-> "", arg |-> ""]
Errorf(format, arg) == [isNil |-> FALSE, format |-> format, arg |-> arg]

\* A map[string]string: nil or a function on the keys it holds.
EmptyMap == [k \in {} |-> ""]
NilMap == [isNil |-> TRUE, m |-> EmptyMap]
MkMap(f) == [isNil |-> FALSE, m |-> f]

\* A *int32: nil or a value.
NilPriority == [isNil |-> TRUE, v |-> 0]
MkPriority(n) == [isNil |-> FALSE, v |-> n]

\* A *v1.Pod: nil, or the fields this package reads.
NilPod == [isNil |-> TRUE, UID |-> "", Annotations |-> NilMap,
           Priority |-> NilPriority, PriorityClassName |-> ""]
MkPod(uid, ann, prio, class) ==
    [isNil |-> FALSE, UID |-> uid, Annotations |-> ann,
     Priority |-> prio, PriorityClassName |-> class]

\* ----------------------------------------------------------- input domains
SourceNames == {FileSource, HTTPSource, ApiserverSource, AllSource, "", "bogus", "ftp"}
SeqsUpTo(S, n) == UNION {[1..k -> S] : k \in 0..n}
SourceSlices == {NilSlice} \cup {MkSlice(s) : s \in SeqsUpTo(SourceNames, MaxLen)}

AnnotationKeys == {ConfigSourceAnnotationKey, ConfigMirrorAnnotationKey}
AnnotationValues == {ApiserverSource, FileSource, ""}
AnnotationMaps ==
    {NilMap} \cup {MkMap(f) : f \in UNION {[K -> AnnotationValues] : K \in SUBSET AnnotationKeys}}

PriorityValues ==
    (0..PrioSpread) \cup
    ((SystemCriticalPriority - PrioSpread)..(SystemCriticalPriority + PrioSpread))
Priorities == {NilPriority} \cup {MkPriority(n) : n \in PriorityValues}

PriorityClassNames == {"", SystemNodeCritical, "system-cluster-critical"}

Pods(uid) ==
    {MkPod(uid, a, p, c) : a \in AnnotationMaps, p \in Priorities, c \in PriorityClassNames}
PodPtrs(uid) == {NilPod} \cup Pods(uid)

\* ------------------------------------------------------ GetValidatedSources
\* Faulty variants of the switch, used to show that the properties below
\* depend on it.
\* The wildcard extends what was accumulated instead of replacing it.
Step_WildcardExtends(source, validated) ==
    CASE source = AllSource ->
            [returned |-> TRUE,
             result |-> MkSlice(validated \o <<FileSource, HTTPSource, ApiserverSource>>),
             err |-> NilError, validated |-> validated]
      [] source \in {FileSource, HTTPSource, ApiserverSource} ->
            [returned |-> FALSE, result |-> NilSlice, err |-> NilError,
             validated |-> Append(validated, source)]
      [] source = "" ->
            [returned |-> FALSE, result |-> NilSlice, err |-> NilError,
             validated |-> validated]
      [] OTHER ->
            [returned |-> TRUE, result |-> MkSlice(<<>>),
             err |-> Errorf("unknown pod source %q", source),
             validated |-> validated]

\* A recognized name already accumulated is not appended again.
Step_Deduplicates(source, validated) ==
    CASE source = AllSource ->
            [returned |-> TRUE,
             result |-> MkSlice(<<FileSource, HTTPSource, ApiserverSource>>),
             err |-> NilError, validated |-> validated]
      [] source \in {FileSource, HTTPSource, ApiserverSource} ->
            [returned |-> FALSE, result |-> NilSlice, err |-> NilError,
             validated |-> IF \E j \in 1..Len(validated) : validated[j] = source
                           THEN validated
                           ELSE Append(validated, source)]
      [] source = "" ->
            [returned |-> FALSE, result |-> NilSlice, err |-> NilError,
             validated |-> validated]
      [] OTHER ->
            [returned |-> TRUE, result |-> MkSlice(<<>>),
             err |-> Errorf("unknown pod source %q", source),
             validated |-> validated]

\* The error return hands back what was accumulated so far.
Step_ErrorReturnsPartial(source, validated) ==
    CASE source = AllSource ->
            [returned |-> TRUE,
             result |-> MkSlice(<<FileSource, HTTPSource, ApiserverSource>>),
             err |-> NilError, validated |-> validated]
      [] source \in {FileSource, HTTPSource, ApiserverSource} ->
            [returned |-> FALSE, result |-> NilSlice, err |-> NilError,
             validated |-> Append(validated, source)]
      [] source = "" ->
            [returned |-> FALSE, result |-> NilSlice, err |-> NilError,
             validated |-> validated]
      [] OTHER ->
            [returned |-> TRUE, result |-> MkSlice(validated),
             err |-> Errorf("unknown pod source %q", source),
             validated |-> validated]

\* One iteration of the loop: the switch on a single source name.
GetValidatedSourcesStep(source, validated) ==
    CASE source = AllSource ->
            [returned |-> TRUE,
             result |-> MkSlice(<<FileSource, HTTPSource, ApiserverSource>>),
             err |-> NilError, validated |-> validated]
      [] source \in {FileSource, HTTPSource, ApiserverSource} ->
            [returned |-> FALSE, result |-> NilSlice, err |-> NilError,
             validated |-> Append(validated, source)]
      [] source = "" ->
            [returned |-> FALSE, result |-> NilSlice, err |-> NilError,
             validated |-> validated]
      [] OTHER ->
            [returned |-> TRUE, result |-> MkSlice(<<>>),
             err |-> Errorf("unknown pod source %q", source),
             validated |-> validated]

RECURSIVE GetValidatedSourcesLoop(_, _, _)
GetValidatedSourcesLoop(elems, i, validated) ==
    IF i > Len(elems)
    THEN [result |-> MkSlice(validated), err |-> NilError]
    ELSE LET s == GetValidatedSourcesStep(elems[i], validated)
         IN  IF s.returned
             THEN [result |-> s.result, err |-> s.err]
             ELSE GetValidatedSourcesLoop(elems, i + 1, s.validated)

GetValidatedSources(srcs) == GetValidatedSourcesLoop(srcs.elems, 1, <<>>)

\* ------------------------------------------------------------- provenance
GetPodSource(pod) ==
    IF ~pod.Annotations.isNil /\ ConfigSourceAnnotationKey \in DOMAIN pod.Annotations.m
    THEN [source |-> pod.Annotations.m[ConfigSourceAnnotationKey], err |-> NilError]
    ELSE [source |-> "", err |-> Errorf("cannot get source of pod %q", pod.UID)]

IsMirrorPod(pod) ==
    IF pod.Annotations.isNil
    THEN FALSE
    ELSE ConfigMirrorAnnotationKey \in DOMAIN pod.Annotations.m

\* Faulty variant: the lookup error is not consulted.
IsStaticPod_IgnoresErr(pod) == GetPodSource(pod).source # ApiserverSource

IsStaticPod(pod) ==
    LET r == GetPodSource(pod)
    IN  r.err.isNil /\ r.source # ApiserverSource

\* ------------------------------------------------- criticality, preemption
IsCriticalPodBasedOnPriority(priority) == priority >= SystemCriticalPriority

\* Faulty variant: the mirror check is missing.
IsCriticalPod_NoMirror(pod) ==
    IF IsStaticPod(pod) THEN TRUE
    ELSE IF ~pod.Priority.isNil /\ IsCriticalPodBasedOnPriority(pod.Priority.v) THEN TRUE
    ELSE FALSE

IsCriticalPod(pod) ==
    IF IsStaticPod(pod) THEN TRUE
    ELSE IF IsMirrorPod(pod) THEN TRUE
    ELSE IF ~pod.Priority.isNil /\ IsCriticalPodBasedOnPriority(pod.Priority.v) THEN TRUE
    ELSE FALSE

\* Faulty variants of Preemptable.
\* The priorities are compared before criticality is looked at.
Preemptable_PriorityFirst(preemptor, preemptee) ==
    IF (~preemptor.isNil /\ ~preemptor.Priority.isNil) /\
       (~preemptee.isNil /\ ~preemptee.Priority.isNil)
    THEN preemptor.Priority.v > preemptee.Priority.v
    ELSE IsCriticalPod(preemptor) /\ ~IsCriticalPod(preemptee)

\* The comparison is not strict.
Preemptable_GreaterOrEqual(preemptor, preemptee) ==
    IF IsCriticalPod(preemptor) /\ ~IsCriticalPod(preemptee) THEN TRUE
    ELSE IF (~preemptor.isNil /\ ~preemptor.Priority.isNil) /\
            (~preemptee.isNil /\ ~preemptee.Priority.isNil)
         THEN preemptor.Priority.v >= preemptee.Priority.v
         ELSE FALSE

\* A critical preemptor preempts whatever the preemptee is.
Preemptable_IgnoresPreempteeCritical(preemptor, preemptee) ==
    IF IsCriticalPod(preemptor) THEN TRUE
    ELSE IF (~preemptor.isNil /\ ~preemptor.Priority.isNil) /\
            (~preemptee.isNil /\ ~preemptee.Priority.isNil)
         THEN preemptor.Priority.v > preemptee.Priority.v
         ELSE FALSE

\* An absent priority is compared as 0.
Preemptable_NilPriorityAsZero(preemptor, preemptee) ==
    IF IsCriticalPod(preemptor) /\ ~IsCriticalPod(preemptee) THEN TRUE
    ELSE IF ~preemptor.isNil /\ ~preemptee.isNil
         THEN (IF preemptor.Priority.isNil THEN 0 ELSE preemptor.Priority.v) >
              (IF preemptee.Priority.isNil THEN 0 ELSE preemptee.Priority.v)
         ELSE FALSE

Preemptable(preemptor, preemptee) ==
    IF IsCriticalPod(preemptor) /\ ~IsCriticalPod(preemptee) THEN TRUE
    ELSE IF (~preemptor.isNil /\ ~preemptor.Priority.isNil) /\
            (~preemptee.isNil /\ ~preemptee.Priority.isNil)
         THEN preemptor.Priority.v > preemptee.Priority.v
         ELSE FALSE

\* Faulty variant: only the class name is looked at.
IsNodeCriticalPod_ClassOnly(pod) == pod.PriorityClassName = SystemNodeCritical

IsNodeCriticalPod(pod) ==
    IsCriticalPod(pod) /\ (pod.PriorityClassName = SystemNodeCritical)

\* Dereferencing a nil *v1.Pod panics.  Every single-pod function reads a
\* field of its argument first; Preemptable reads the preemptor first and
\* the preemptee only when the preemptor is critical.
PodFuncPanics(pod) == pod.isNil
PreemptablePanics(preemptor, preemptee) ==
    preemptor.isNil \/ (IsCriticalPod(preemptor) /\ preemptee.isNil)

\* ------------------------------------------------------------------- state
VARIABLES
    sources,     \* the []string a caller passes to GetValidatedSources
    preemptor,   \* two pod pointers of one snapshot
    preemptee,
    op,          \* the function that was called, "none" before the call
    arg,         \* the pod a single-pod function was called on
    retBool,     \* a bool result
    retString,   \* a string result
    retSlice,    \* a []string result
    retErr,      \* an error result
    panicked     \* the call ended in a nil-pointer panic

vars == <<sources, preemptor, preemptee, op, arg,
          retBool, retString, retSlice, retErr, panicked>>

NoReturn ==
    /\ retBool = FALSE
    /\ retString = ""
    /\ retSlice = NilSlice
    /\ retErr = NilError
    /\ panicked = FALSE

\* Either a slice of source names or a pair of pods is at hand.
Init ==
    /\ op = "none"
    /\ arg = NilPod
    /\ NoReturn
    /\ \/ /\ sources \in SourceSlices
          /\ preemptor = NilPod
          /\ preemptee = NilPod
       \/ /\ sources = NilSlice
          /\ preemptor \in PodPtrs("uid-1")
          /\ preemptee \in PodPtrs("uid-2")

CallGetValidatedSources ==
    /\ op = "none"
    /\ op' = "GetValidatedSources"
    /\ LET r == GetValidatedSources(sources)
       IN  /\ retSlice' = r.result
           /\ retErr' = r.err
    /\ UNCHANGED <<sources, preemptor, preemptee, arg, retBool, retString, panicked>>

CallGetPodSource(pod) ==
    /\ op = "none"
    /\ op' = "GetPodSource"
    /\ arg' = pod
    /\ IF PodFuncPanics(pod)
       THEN /\ panicked' = TRUE
            /\ UNCHANGED <<retString, retErr>>
       ELSE /\ retString' = GetPodSource(pod).source
            /\ retErr' = GetPodSource(pod).err
            /\ UNCHANGED panicked
    /\ UNCHANGED <<sources, preemptor, preemptee, retBool, retSlice>>

\* A call of a func(*v1.Pod) bool.
CallPodPredicate(name, pod, value) ==
    /\ op = "none"
    /\ op' = name
    /\ arg' = pod
    /\ IF PodFuncPanics(pod)
       THEN /\ panicked' = TRUE
            /\ UNCHANGED retBool
       ELSE /\ retBool' = value
            /\ UNCHANGED panicked
    /\ UNCHANGED <<sources, preemptor, preemptee, retString, retSlice, retErr>>

CallIsMirrorPod(pod) == CallPodPredicate("IsMirrorPod", pod, IsMirrorPod(pod))
CallIsStaticPod(pod) == CallPodPredicate("IsStaticPod", pod, IsStaticPod(pod))
CallIsCriticalPod(pod) == CallPodPredicate("IsCriticalPod", pod, IsCriticalPod(pod))
CallIsNodeCriticalPod(pod) ==
    CallPodPredicate("IsNodeCriticalPod", pod, IsNodeCriticalPod(pod))

CallPreemptable ==
    /\ op = "none"
    /\ op' = "Preemptable"
    /\ IF PreemptablePanics(preemptor, preemptee)
       THEN /\ panicked' = TRUE
            /\ UNCHANGED retBool
       ELSE /\ retBool' = Preemptable(preemptor, preemptee)
            /\ UNCHANGED panicked
    /\ UNCHANGED <<sources, preemptor, preemptee, arg, retString, retSlice, retErr>>

Next ==
    \/ CallGetValidatedSources
    \/ \E pod \in {preemptor, preemptee} : CallGetPodSource(pod)
    \/ \E pod \in {preemptor, preemptee} : CallIsMirrorPod(pod)
    \/ \E pod \in {preemptor, preemptee} : CallIsStaticPod(pod)
    \/ \E pod \in {preemptor, preemptee} : CallIsCriticalPod(pod)
    \/ \E pod \in {preemptor, preemptee} : CallIsNodeCriticalPod(pod)
    \/ CallPreemptable

Spec == Init /\ [][Next]_vars

\* ============================================================== properties
AllSources == <<FileSource, HTTPSource, ApiserverSource>>
IsRecognized(x) == x \in {FileSource, HTTPSource, ApiserverSource}
IsUnknown(x) == ~IsRecognized(x) /\ x # AllSource /\ x # ""
NotEmpty(x) == x # ""
Indices(s) == 1..Len(s)
HasWildcard(s) == \E k \in Indices(s) : s[k] = AllSource
HasUnknown(s) == \E k \in Indices(s) : IsUnknown(s[k])
HasEmpty(s) == \E k \in Indices(s) : s[k] = ""
HasDuplicate(s) == \E j, k \in Indices(s) : j < k /\ s[j] = s[k] /\ IsRecognized(s[j])

Validated == op = "GetValidatedSources"
In == sources.elems

HasSourceAnnotation(pod) ==
    ~pod.Annotations.isNil /\ ConfigSourceAnnotationKey \in DOMAIN pod.Annotations.m
HasMirrorAnnotation(pod) ==
    ~pod.Annotations.isNil /\ ConfigMirrorAnnotationKey \in DOMAIN pod.Annotations.m
HasPriority(pod) == ~pod.Priority.isNil

\* Preemptable was called on two pods (no nil pointer).
PreemptableCalled == op = "Preemptable" /\ ~preemptor.isNil /\ ~preemptee.isNil
HigherPriority(a, b) == HasPriority(a) /\ HasPriority(b) /\ a.Priority.v > b.Priority.v

\* ---------------------------------------------------------------------- C1
\* C1 as stated: whenever the input contains the wildcard "*" at any
\* position, GetValidatedSources succeeds and returns exactly
\* [file, http, api].  Refuted by an input with an unrecognized name in
\* front of the wildcard, e.g. ["bogus", "*"].
C1_WildcardAnywhere ==
    (Validated /\ HasWildcard(In)) =>
        (retErr.isNil /\ retSlice = MkSlice(AllSources))

\* C1 amended: whenever the input contains the wildcard "*" and no
\* unrecognized name stands before the first wildcard, GetValidatedSources
\* succeeds and returns exactly [file, http, api], whatever the elements
\* before it (recognized or empty) and after it (anything) are.
C1_WildcardBeforeUnknown ==
    (Validated /\ \E k \in Indices(In) :
                     /\ In[k] = AllSource
                     /\ \A j \in 1..(k - 1) : ~IsUnknown(In[j])) =>
        (retErr.isNil /\ retSlice = MkSlice(AllSources))

\* A recognized name, then the wildcard, then an unrecognized name.
C1_Witness ==
    /\ Validated
    /\ Len(In) = 3
    /\ In[1] = HTTPSource /\ In[2] = AllSource /\ In[3] = "bogus"
    /\ retErr.isNil
    /\ retSlice = MkSlice(AllSources)

\* ---------------------------------------------------------------------- C5
\* C5: for an input with no wildcard and no unrecognized name the call
\* succeeds and returns the input without its empty strings, the recognized
\* names kept in order and multiplicity; with no empty strings either the
\* result is the input sequence itself.
C5_FilterEmpty ==
    (Validated /\ ~HasWildcard(In) /\ ~HasUnknown(In)) =>
        /\ retErr.isNil
        /\ ~retSlice.isNil
        /\ retSlice.elems = SelectSeq(In, NotEmpty)
        /\ (~HasEmpty(In) => retSlice.elems = In)

\* A duplicate name around an empty string.
C5_Witness ==
    /\ Validated
    /\ ~HasWildcard(In) /\ ~HasUnknown(In)
    /\ HasEmpty(In) /\ HasDuplicate(In)
    /\ Len(retSlice.elems) = 2
    /\ retSlice.elems[1] = retSlice.elems[2]

\* ---------------------------------------------------------------------- C6
\* C6: when the loop of GetValidatedSources meets an unrecognized name
\* (no wildcard and no other unrecognized name stands before it), the call
\* fails with the unknown-source error that names this value, the first
\* unrecognized one in input order, and returns an empty non-nil slice:
\* the recognized names accumulated before it are not returned.
C6_UnknownSource ==
    Validated =>
        \A k \in Indices(In) :
            (/\ IsUnknown(In[k])
             /\ \A j \in 1..(k - 1) : In[j] # AllSource /\ ~IsUnknown(In[j])) =>
                /\ retErr = Errorf("unknown pod source %q", In[k])
                /\ retSlice = MkSlice(<<>>)

\* A recognized name, an unrecognized one, then a different unrecognized one.
C6_Witness ==
    /\ Validated
    /\ Len(In) = 3
    /\ In[1] = FileSource /\ In[2] = "bogus" /\ In[3] = "ftp"
    /\ ~retErr.isNil /\ retErr.arg = "bogus"
    /\ ~retSlice.isNil /\ retSlice.elems = <<>>

\* ---------------------------------------------------------------------- C7
\* C7: IsStaticPod(pod) is true iff the annotation
\* kubernetes.io/config.source is present with a value other than "api";
\* GetPodSource returns the value when the annotation is present and fails
\* (naming the pod's UID) when it is absent or the map is nil, and then
\* IsStaticPod is false.
C7_IsStaticPod ==
    /\ (op = "IsStaticPod" /\ ~arg.isNil) =>
          /\ ~panicked
          /\ retBool = (HasSourceAnnotation(arg) /\
                        arg.Annotations.m[ConfigSourceAnnotationKey] # "api")
    /\ (op = "GetPodSource" /\ ~arg.isNil) =>
          /\ ~panicked
          /\ IF HasSourceAnnotation(arg)
             THEN /\ retErr.isNil
                  /\ retString = arg.Annotations.m[ConfigSourceAnnotationKey]
             ELSE /\ retErr = Errorf("cannot get source of pod %q", arg.UID)
                  /\ retString = ""

\* IsStaticPod called on a pod whose annotation map is nil.
C7_Witness ==
    /\ op = "IsStaticPod"
    /\ ~arg.isNil
    /\ arg.Annotations.isNil
    /\ ~GetPodSource(arg).err.isNil
    /\ retBool = FALSE

\* ---------------------------------------------------------------------- C8
\* C8: IsCriticalPod(pod) equals IsStaticPod(pod) or IsMirrorPod(pod) or
\* (the priority is present and >= SystemCriticalPriority); a pod carrying
\* the mirror annotation, whatever its value, is critical.
C8_IsCriticalPod ==
    (op = "IsCriticalPod" /\ ~arg.isNil) =>
        /\ ~panicked
        /\ retBool = (\/ IsStaticPod(arg)
                      \/ IsMirrorPod(arg)
                      \/ (HasPriority(arg) /\ arg.Priority.v >= SystemCriticalPriority))
        /\ (HasMirrorAnnotation(arg) => retBool)

\* A mirror pod without source annotation and with priority 0.
C8_Witness ==
    /\ op = "IsCriticalPod"
    /\ ~arg.isNil
    /\ HasMirrorAnnotation(arg) /\ ~HasSourceAnnotation(arg)
    /\ HasPriority(arg) /\ arg.Priority.v = 0
    /\ retBool = TRUE

\* ---------------------------------------------------------------------- C9
\* C9: IsNodeCriticalPod(pod) is true iff IsCriticalPod(pod) is true and
\* the priority-class name is "system-node-critical"; so a node-critical
\* pod is critical.
C9_IsNodeCriticalPod ==
    (op = "IsNodeCriticalPod" /\ ~arg.isNil) =>
        /\ ~panicked
        /\ retBool = (IsCriticalPod(arg) /\ arg.PriorityClassName = "system-node-critical")
        /\ (retBool => IsCriticalPod(arg))

\* The class name is system-node-critical but the pod is not critical.
C9_Witness ==
    /\ op = "IsNodeCriticalPod"
    /\ ~arg.isNil
    /\ arg.PriorityClassName = "system-node-critical"
    /\ ~IsCriticalPod(arg)
    /\ retBool = FALSE

\* ---------------------------------------------------------------------- C3
\* C3: a critical preemptor may always preempt a non-critical preemptee,
\* whatever the two priorities are.
C3_CriticalPreemptsNonCritical ==
    (PreemptableCalled /\ IsCriticalPod(preemptor) /\ ~IsCriticalPod(preemptee)) =>
        (~panicked /\ retBool = TRUE)

\* A static preemptor whose priority is below the preemptee's.
C3_Witness ==
    /\ PreemptableCalled
    /\ IsStaticPod(preemptor) /\ ~IsCriticalPod(preemptee)
    /\ HigherPriority(preemptee, preemptor)
    /\ retBool = TRUE

\* ---------------------------------------------------------------------- C4
\* C4: Preemptable(p, e) is true iff (p is critical and e is not) or (both
\* carry a priority and p's is strictly greater); otherwise it is false.
C4_ThreeRules ==
    PreemptableCalled =>
        /\ ~panicked
        /\ retBool = (\/ (IsCriticalPod(preemptor) /\ ~IsCriticalPod(preemptee))
                      \/ HigherPriority(preemptor, preemptee))

\* Two non-critical pods, the preemptor without a priority.
C4_Witness ==
    /\ PreemptableCalled
    /\ ~IsCriticalPod(preemptor) /\ ~IsCriticalPod(preemptee)
    /\ ~HasPriority(preemptor) /\ HasPriority(preemptee)
    /\ ~panicked
    /\ retBool = FALSE

\* ---------------------------------------------------------------------- C2
\* C2 as stated: Preemptable(A, B) and Preemptable(B, A) are never both
\* true.  Refuted by a static or mirror pod A and a non-critical pod B
\* with a higher priority than A's.
C2_Antisymmetric ==
    (PreemptableCalled /\ retBool = TRUE) => ~Preemptable(preemptee, preemptor)

\* One pod is critical, the other is not and has the strictly higher priority.
CriticalBelowNonCritical(a, b) ==
    IsCriticalPod(a) /\ ~IsCriticalPod(b) /\ HigherPriority(b, a)

\* C2 amended: Preemptable(A, B) and Preemptable(B, A) are both true
\* exactly when one of the two pods is critical, the other is not, and the
\* non-critical pod carries a priority strictly greater than the critical
\* pod's; in every other case at most one of them is true.
C2_AntisymmetricUnlessCriticalBelow ==
    PreemptableCalled =>
        ((retBool = TRUE /\ Preemptable(preemptee, preemptor)) <=>
            (\/ CriticalBelowNonCritical(preemptor, preemptee)
             \/ CriticalBelowNonCritical(preemptee, preemptor)))

\* A mirror preemptor with the higher priority: one direction only.
C2_Witness ==
    /\ PreemptableCalled
    /\ IsMirrorPod(preemptor) /\ ~IsCriticalPod(preemptee)
    /\ HigherPriority(preemptor, preemptee)
    /\ retBool = TRUE
    /\ ~Preemptable(preemptee, preemptor)

\* --------------------------------------------------------------------- C10
\* C10 as stated: a non-critical preemptor never preempts a critical
\* preemptee.  Refuted by a static or mirror preemptee whose priority is
\* lower than the preemptor's.
C10_CriticalNeverPreempted ==
    (PreemptableCalled /\ ~IsCriticalPod(preemptor) /\ IsCriticalPod(preemptee)) =>
        retBool = FALSE

\* C10 amended: a non-critical preemptor preempts a critical preemptee
\* exactly when both carry a priority and the preemptor's is strictly
\* greater; so a preemptee that is critical by its priority, or that has no
\* priority, is never preempted by a non-critical pod.
C10_CriticalPreemptedOnlyByPriority ==
    (PreemptableCalled /\ ~IsCriticalPod(preemptor) /\ IsCriticalPod(preemptee)) =>
        /\ ~panicked
        /\ retBool = HigherPriority(preemptor, preemptee)
        /\ ((~HasPriority(preemptee) \/
             preemptee.Priority.v >= SystemCriticalPriority) => retBool = FALSE)

\* A static preemptee without priority and a preemptor with one.
C10_Witness ==
    /\ PreemptableCalled
    /\ ~IsCriticalPod(preemptor) /\ HasPriority(preemptor)
    /\ IsStaticPod(preemptee) /\ ~HasPriority(preemptee)
    /\ retBool = FALSE

====
